---------------------------- MODULE Spec2Model ----------------------------
(***************************************************************************)
(* Model of the ISO-NE grid monitor's normalisation engine                 *)
(* (custom_components/isone_grid_monitor/coordinator.py):                  *)
(*   - the status pipeline  _get_status -> _parse_status                   *)
(*     (with _extract_op4_action), specification SpecStatus;               *)
(*   - the forecast analysis _get_forecast_alerts_csv, specification       *)
(*     SpecForecast.                                                       *)
(*                                                                         *)
(* Python strings are modelled as sequences of one-character strings, so   *)
(* that `in`, str.lower, re.search, str.replace and float() are computed   *)
(* character by character, as the interpreter does.                        *)
(***************************************************************************)
EXTENDS Integers, Sequences, FiniteSets, TLC

VARIABLES
    pc,            \* position of the modelled call chain
    api_status,    \* what self.isone.get_status("latest") answers
    status_data,   \* the dict returned by _get_status
    parsed_status, \* the dict returned by _parse_status
    csv,           \* the forecast response: HTTP status and the rows of the body
    forecast,      \* the dict returned by _get_forecast_alerts_csv
    coordinator,   \* the attributes of the ISONEDataCoordinator object
    cycles,        \* the running calls of _async_update_data: locals and position
    clock          \* what datetime.now() reads, in seconds

statusVars == <<api_status, status_data, parsed_status>>
forecastVars == <<csv, forecast>>
cycleVars == <<coordinator, cycles, clock>>
vars == <<pc, api_status, status_data, parsed_status, csv, forecast, coordinator, cycles, clock>>

---------------------------------------------------------------------------
(* Bounds of the model. *)

\* Longest status text, in fragments of StatusFragments.
MaxFrags == 3
\* Largest number written in a status text.
MaxNum == 12
\* Most day columns of a forecast CSV.
MaxDays == 2
\* Latest reading of the clock, in ticks of TickSeconds.
MaxTicks == 6
\* Most D rows of a forecast CSV with repeated labels.
MaxRows == 4

---------------------------------------------------------------------------
(* Python values. *)

\* Python's None where an int is expected (op4_action, eea_level).
None == -1

PyStr(s) == [type |-> "str", val |-> s]
PyNone == [type |-> "NoneType", val |-> << >>]

\* The sequences over S of length 0..n.
SeqUpTo(S, n) == UNION {[1..k -> S] : k \in 0..n}

RECURSIVE Concat(_)
Concat(ss) == IF ss = << >> THEN << >> ELSE Head(ss) \o Concat(Tail(ss))

---------------------------------------------------------------------------
(* str.lower, on the letters the model's texts are written in.             *)

UpperLetters ==
    <<"A","B","C","D","E","G","H","I","L","M","N","O","P","R","S","T","U","W","Y">>
LowerLetters ==
    <<"a","b","c","d","e","g","h","i","l","m","n","o","p","r","s","t","u","w","y">>

lowerChar(c) ==
    IF \E k \in 1..Len(UpperLetters) : UpperLetters[k] = c
    THEN LowerLetters[CHOOSE k \in 1..Len(UpperLetters) : UpperLetters[k] = c]
    ELSE c

\* Mutant: the text is not lower-cased before it is searched.
lower_forgotten(s) == s

lower(s) == [i \in 1..Len(s) |-> lowerChar(s[i])]

\* Python's `sub in s`.
LitAt(s, p, lit) ==
    /\ p >= 1
    /\ p + Len(lit) - 1 <= Len(s)
    /\ \A j \in 1..Len(lit) : s[p + j - 1] = lit[j]

Contains(s, sub) == \E p \in 1..(Len(s) - Len(sub) + 1) : LitAt(s, p, sub)

---------------------------------------------------------------------------
(* Constants of const.py. *)

STATUS_NORMAL == <<"N","o","r","m","a","l">>
STATUS_MLCC2 == <<"M","/","L","C","C"," ","2"," ","A","l","e","r","t">>
STATUS_OP4 == <<"O","P","-","4">>
STATUS_OP7 == <<"O","P","-","7"," ","E","m","e","r","g","e","n","c","y">>
STATUS_EEA1 == <<"E","E","A"," ","L","e","v","e","l"," ","1">>
STATUS_EEA2 == <<"E","E","A"," ","L","e","v","e","l"," ","2">>
STATUS_EEA3 == <<"E","E","A"," ","L","e","v","e","l"," ","3">>

SEVERITY_NORMAL == 0
SEVERITY_MLCC2 == 1
SEVERITY_OP4_EARLY == 2
SEVERITY_POWER_WATCH == 3
SEVERITY_POWER_WARNING == 4
SEVERITY_EMERGENCY == 5

---------------------------------------------------------------------------
(* The keywords _parse_status and _extract_op4_action look for. *)

kw_op_7 == <<"o","p","-","7">>
kw_op7 == <<"o","p","7">>
kw_load_shed == <<"l","o","a","d"," ","s","h","e","d">>
kw_eea == <<"e","e","a">>
kw_energy_emergency_alert ==
    <<"e","n","e","r","g","y"," ","e","m","e","r","g","e","n","c","y"," ",
      "a","l","e","r","t">>
kw_eea_n(d) == <<"e","e","a"," ",d>>
kw_eea_level_n(d) == <<"e","e","a"," ","l","e","v","e","l"," ",d>>
kw_op_4 == <<"o","p","-","4">>
kw_op4 == <<"o","p","4">>
kw_m_lcc == <<"m","/","l","c","c">>
kw_mlcc == <<"m","l","c","c">>
kw_abnormal == <<"a","b","n","o","r","m","a","l">>
kw_power_warning == <<"p","o","w","e","r"," ","w","a","r","n","i","n","g">>
kw_power_watch == <<"p","o","w","e","r"," ","w","a","t","c","h">>
kw_power_caution == <<"p","o","w","e","r"," ","c","a","u","t","i","o","n">>
kw_action == <<"a","c","t","i","o","n">>
kw_op == <<"o","p">>

DigitChars == <<"0","1","2","3","4","5","6","7","8","9">>
Digits == {DigitChars[k] : k \in 1..10}
Whitespace == {" "}

digitValue(c) == (CHOOSE k \in 1..10 : DigitChars[k] = c) - 1

\* int() of a non-empty run of digits.
RECURSIVE int(_)
int(ds) ==
    IF ds = << >> THEN 0
    ELSE int(SubSeq(ds, 1, Len(ds) - 1)) * 10 + digitValue(ds[Len(ds)])

\* str() of a natural number.
RECURSIVE str(_)
str(n) ==
    IF n < 10 THEN <<DigitChars[n + 1]>>
    ELSE str(n \div 10) \o <<DigitChars[(n % 10) + 1]>>

---------------------------------------------------------------------------
(* re.search for the three patterns of _extract_op4_action.  A pattern is  *)
(* matched left to right from position p; 0 stands for "no match here".    *)
(* The patterns are unambiguous (the optional "-" is never a "4", a        *)
(* whitespace is never a digit), so the greedy match is the only one.      *)

\* The first position >= p whose character is not in S.
RECURSIVE RunEnd(_, _, _)
RunEnd(s, p, S) ==
    IF p > Len(s) \/ s[p] \notin S THEN p ELSE RunEnd(s, p + 1, S)

reLit(s, p, lit) == IF p # 0 /\ LitAt(s, p, lit) THEN p + Len(lit) ELSE 0
reOpt(s, p, c) == IF p = 0 THEN 0 ELSE IF p <= Len(s) /\ s[p] = c THEN p + 1 ELSE p
rePlus(s, p, S) ==
    IF p = 0 THEN 0
    ELSE LET e == RunEnd(s, p, S) IN IF e > p THEN e ELSE 0

\* op-?4
reOp4(s, p) == reLit(s, reOpt(s, reLit(s, p, kw_op), "-"), <<"4">>)

\* Where the group (\d+) starts when pattern k matches at p, else 0.
\*   1: action\s+(\d+)   2: op-?4\s+action\s+(\d+)   3: op-?4\s+(\d+)
groupStart(s, p, k) ==
    CASE k = 1 -> rePlus(s, reLit(s, p, kw_action), Whitespace)
      [] k = 2 -> rePlus(s, reLit(s, rePlus(s, reOp4(s, p), Whitespace), kw_action),
                         Whitespace)
      [] k = 3 -> rePlus(s, reOp4(s, p), Whitespace)

matchesAt(s, p, k) == rePlus(s, groupStart(s, p, k), Digits) # 0

\* match.group(1) of the match of pattern k at p.
group1(s, p, k) ==
    LET g == groupStart(s, p, k) IN SubSeq(s, g, rePlus(s, g, Digits) - 1)

\* re.search(pattern k, s): the leftmost position where it matches, else 0.
RECURSIVE searchFrom(_, _, _)
searchFrom(s, p, k) ==
    IF p > Len(s) THEN 0
    ELSE IF matchesAt(s, p, k) THEN p
    ELSE searchFrom(s, p + 1, k)

search(s, k) == searchFrom(s, 1, k)

\* Mutant: the range test excludes 11 (1 <= action_num < 11).
RECURSIVE extractFrom_upto10(_, _)
extractFrom_upto10(s, k) ==
    IF k > 3 THEN None
    ELSE LET m == search(s, k)
             action_num == int(group1(s, m, k))
         IN  IF m # 0 /\ 1 <= action_num /\ action_num < 11
             THEN action_num
             ELSE extractFrom_upto10(s, k + 1)

\* Mutant: the first pattern that matches decides; a number out of range
\* ends the search.
extractFrom_first_match(s, k) ==
    LET Matching == {j \in k..3 : search(s, j) # 0}
        j == CHOOSE j \in Matching : \A i \in Matching : j <= i
        action_num == int(group1(s, search(s, j), j))
    IN  IF Matching # {} /\ 1 <= action_num /\ action_num <= 11
        THEN action_num
        ELSE None

\* The loop of _extract_op4_action from pattern k on.
RECURSIVE extractFrom(_, _)
extractFrom(s, k) ==
    IF k > 3 THEN None
    ELSE LET m == search(s, k)
             action_num == int(group1(s, m, k))
         IN  IF m # 0 /\ 1 <= action_num /\ action_num <= 11
             THEN action_num
             ELSE extractFrom(s, k + 1)

extract_op4_action(status_text) == extractFrom(lower(status_text), 1)

---------------------------------------------------------------------------
(* _get_status: the answer of the status API turned into the status dict.  *)
(* api_status.kind is                                                      *)
(*   "raise"  get_status raised,                                           *)
(*   "None"   it returned None,   "empty"  an empty frame,                 *)
(*   "row"    a frame whose first record has a Status column (has_Status)  *)
(*            holding the Python value Status, or has none.                *)

get_status(api) ==
    CASE api.kind = "raise" ->
            [status |-> PyStr(STATUS_NORMAL), raw |-> "None", error |-> TRUE]
      [] api.kind \in {"None", "empty"} ->
            [status |-> PyStr(STATUS_NORMAL), raw |-> "None", error |-> FALSE]
      [] api.kind = "row" ->
            [status |-> IF api.has_Status THEN api.Status ELSE PyStr(STATUS_NORMAL),
             raw |-> "status_dict", error |-> FALSE]

---------------------------------------------------------------------------
(* _parse_status.  A description is the format string and the number put   *)
(* into it (None when the description is a fixed text).                    *)

Description(fmt, n) == [fmt |-> fmt, action_num |-> n]

\* status_text.lower() raises AttributeError when the value is no str.
parse_status_raises(data) == data.status.type # "str"

op4_branch(parsed, status_text) ==
    LET action_num == extract_op4_action(status_text)
        p1 == [parsed EXCEPT !.status = STATUS_OP4, !.op4_action = action_num]
    IN  IF action_num # None /\ action_num # 0
        THEN IF action_num >= 10
             THEN [p1 EXCEPT !.severity = SEVERITY_EMERGENCY,
                             !.is_emergency = TRUE,
                             !.description =
                                 Description("OP-4 Action {action_num} - Critical", action_num)]
             ELSE IF action_num >= 6
             THEN [p1 EXCEPT !.severity = SEVERITY_POWER_WARNING,
                             !.is_emergency = TRUE,
                             !.description =
                                 Description("OP-4 Action {action_num} - Power Warning", action_num)]
             ELSE IF action_num >= 4
             THEN [p1 EXCEPT !.severity = SEVERITY_POWER_WATCH,
                             !.is_emergency = FALSE,
                             !.description =
                                 Description("OP-4 Action {action_num} - Power Watch", action_num)]
             ELSE [p1 EXCEPT !.severity = SEVERITY_OP4_EARLY,
                             !.is_emergency = FALSE,
                             !.description =
                                 Description("OP-4 Action {action_num} - Early Warning", action_num)]
        ELSE [p1 EXCEPT !.severity = SEVERITY_OP4_EARLY,
                        !.description =
                            Description("OP-4 Capacity Deficiency Procedure Active", None)]

\* Mutant: an EEA text without a level phrase is taken for level 1.
eea_level_default1(status_lower) ==
    IF Contains(status_lower, kw_eea_n("3")) \/ Contains(status_lower, kw_eea_level_n("3"))
    THEN 3
    ELSE IF Contains(status_lower, kw_eea_n("2")) \/ Contains(status_lower, kw_eea_level_n("2"))
    THEN 2
    ELSE 1

\* The level the EEA branch finds (lines 403, 409, 415), None when it finds none.
eea_level_of(status_lower) ==
    IF Contains(status_lower, kw_eea_n("3")) \/ Contains(status_lower, kw_eea_level_n("3"))
    THEN 3
    ELSE IF Contains(status_lower, kw_eea_n("2")) \/ Contains(status_lower, kw_eea_level_n("2"))
    THEN 2
    ELSE IF Contains(status_lower, kw_eea_n("1")) \/ Contains(status_lower, kw_eea_level_n("1"))
    THEN 1
    ELSE None

eea_branch(parsed, status_lower) ==
    LET level == eea_level_of(status_lower)
    IN
    CASE level = 3 ->
            [parsed EXCEPT !.status = STATUS_EEA3, !.eea_level = 3,
                           !.severity = SEVERITY_EMERGENCY,
                           !.description = Description("Energy Emergency Alert Level 3", None),
                           !.is_emergency = TRUE]
      [] level = 2 ->
            [parsed EXCEPT !.status = STATUS_EEA2, !.eea_level = 2,
                           !.severity = SEVERITY_POWER_WARNING,
                           !.description = Description("Energy Emergency Alert Level 2", None),
                           !.is_emergency = TRUE]
      [] level = 1 ->
            [parsed EXCEPT !.status = STATUS_EEA1, !.eea_level = 1,
                           !.severity = SEVERITY_OP4_EARLY,
                           !.description = Description("Energy Emergency Alert Level 1", None),
                           !.is_emergency = FALSE]
      [] OTHER -> parsed

\* The conditions of the if/elif chain, on status_text.lower().
is_op7(status_lower) ==
    \/ Contains(status_lower, kw_op_7)
    \/ Contains(status_lower, kw_op7)
    \/ Contains(status_lower, kw_load_shed)

\* Mutant: the short keyword "eea" is not looked for.
is_eea_long_only(status_lower) == Contains(status_lower, kw_energy_emergency_alert)

is_eea(status_lower) ==
    \/ Contains(status_lower, kw_eea)
    \/ Contains(status_lower, kw_energy_emergency_alert)

\* Mutant: the spelling "op4" is not looked for.
is_op4_hyphen_only(status_lower) == Contains(status_lower, kw_op_4)

is_op4(status_lower) ==
    Contains(status_lower, kw_op_4) \/ Contains(status_lower, kw_op4)

is_mlcc(status_lower) ==
    \/ Contains(status_lower, kw_m_lcc)
    \/ Contains(status_lower, kw_mlcc)
    \/ Contains(status_lower, kw_abnormal)

\* The record `parsed` as first built (lines 382-389).
baseline(status_text) ==
    [status |-> status_text,
     severity |-> SEVERITY_NORMAL,
     op4_action |-> None,
     eea_level |-> None,
     description |-> Description("Grid operating normally", None),
     is_emergency |-> FALSE]

parse_status(data) ==
    LET status_text == data.status.val
        parsed0 == baseline(status_text)
        status_lower == lower(status_text)
    IN  IF is_op7(status_lower)
        THEN [parsed0 EXCEPT !.status = STATUS_OP7,
                             !.severity = SEVERITY_EMERGENCY,
                             !.description =
                                 Description("Emergency - Load shedding may occur", None),
                             !.is_emergency = TRUE]
        ELSE IF is_eea(status_lower)
        THEN eea_branch(parsed0, status_lower)
        ELSE IF is_op4(status_lower)
        THEN op4_branch(parsed0, status_text)
        ELSE IF is_mlcc(status_lower)
        THEN [parsed0 EXCEPT !.status = STATUS_MLCC2,
                             !.severity = SEVERITY_MLCC2,
                             !.description = Description("Abnormal conditions alert", None)]
        ELSE IF Contains(status_lower, kw_power_warning)
        THEN [parsed0 EXCEPT !.severity = SEVERITY_POWER_WARNING,
                             !.is_emergency = TRUE,
                             !.description =
                                 Description("Power Warning - Immediate reduction needed", None)]
        ELSE IF Contains(status_lower, kw_power_watch)
        THEN [parsed0 EXCEPT !.severity = SEVERITY_POWER_WATCH,
                             !.description =
                                 Description("Power Watch - Conservation may be needed", None)]
        ELSE IF Contains(status_lower, kw_power_caution)
        THEN [parsed0 EXCEPT !.severity = SEVERITY_OP4_EARLY,
                             !.description =
                                 Description("Power Caution - Resources on alert", None)]
        ELSE parsed0

---------------------------------------------------------------------------
(* The status texts of the model: up to MaxFrags fragments written one     *)
(* after the other.  Two families: texts over every keyword of             *)
(* _parse_status (StatusTexts), and OP-4 texts with every action number    *)
(* 0..MaxNum (Op4Texts).                                                   *)

StatusFragments ==
    { <<"O","P","-","7">>,
      <<"O","p","-","7">>,
      <<"o","p","7">>,
      <<"L","o","a","d"," ","S","h","e","d">>,
      <<"E","E","A">>,
      <<"E","n","e","r","g","y"," ","E","m","e","r","g","e","n","c","y"," ",
        "A","l","e","r","t">>,
      <<"E","E","A"," ","L","e","v","e","l"," ","2">>,
      <<" ","L","e","v","e","l">>,
      <<"O","P","-","4">>,
      <<"O","p","4">>,
      <<" ","A","c","t","i","o","n">>,
      <<"M","/","L","C","C">>,
      <<"m","l","c","c">>,
      <<"A","b","n","o","r","m","a","l">>,
      <<"P","o","w","e","r"," ","W","a","r","n","i","n","g">>,
      <<"P","O","W","E","R"," ","W","A","T","C","H">>,
      <<"p","o","w","e","r"," ","c","a","u","t","i","o","n">>,
      <<"S","y","s","t","e","m"," ","i","n"," ">>,
      <<" ","1">>, <<" ","3">>, <<" ","9">> }

StatusTexts == {Concat(fs) : fs \in SeqUpTo(StatusFragments, MaxFrags)}

Op4Fragments ==
    { <<"O","P","-","4"," ","A","c","t","i","o","n">>,
      <<"S","y","s","t","e","m"," ","i","n"," ",
        "O","P","-","4"," ","A","c","t","i","o","n">>,
      <<"O","P","-","4">>,
      <<"o","p","4">>,
      <<" ","A","c","t","i","o","n">>,
      <<" ","-"," ","I","n","d","u","s","t","r","i","a","l"," ",
        "C","u","r","t","a","i","l","m","e","n","t">>,
      <<"0">> }
    \cup {<<" ">> \o str(n) : n \in 0..MaxNum}

Op4Texts == {Concat(fs) : fs \in SeqUpTo(Op4Fragments, MaxFrags)}

\* What the status API can answer.
StatusResponses(texts) ==
    {[kind |-> k, has_Status |-> FALSE, Status |-> PyNone] :
        k \in {"raise", "None", "empty", "row"}}
    \cup {[kind |-> "row", has_Status |-> TRUE, Status |-> PyNone]}
    \cup {[kind |-> "row", has_Status |-> TRUE, Status |-> PyStr(t)] : t \in texts}

---------------------------------------------------------------------------
(* The status pipeline of _async_update_data:                              *)
(*   status_data = _get_status(); ...; parsed_status = _parse_status(..)   *)
(* An exception inside the cycle is re-raised as UpdateFailed.             *)

NoStatusData == [status |-> PyNone, raw |-> "None", error |-> FALSE]
NoParsed ==
    [status |-> << >>, severity |-> None, op4_action |-> None, eea_level |-> None,
     description |-> Description("", None), is_emergency |-> FALSE]
NoCsv == [raises |-> FALSE, status |-> 0, rows |-> << >>]
NoForecast == [alerts |-> << >>, has_alerts |-> FALSE, total_alerts |-> None, error |-> FALSE]

\* A forecast dict that may be None (cached_forecast_alerts).
NotCached == [is_none |-> TRUE, value |-> NoForecast]
Cached(result) == [is_none |-> FALSE, value |-> result]

\* A rounded percentage that may be None, in tenths of a percent.
NoMargin == [is_none |-> TRUE, tenths |-> 0]
Margin(t) == [is_none |-> FALSE, tenths |-> t]

\* The dict returned by _get_load, before the call.
NoLoad == [total_load |-> None, zone_load |-> None, error |-> FALSE]

\* data = {} (line 78); keys is the set of keys written so far.
EmptyData ==
    [keys |-> {}, status |-> NoStatusData, load |-> NoLoad, capacity |-> None,
     capacity_margin |-> NoMargin, forecast_alerts |-> NotCached,
     parsed_status |-> NoParsed]

\* The coordinator after __init__ (47-73); zone stands for
\* "self.zone and self.zone_code".  data and last_update_success are the
\* attributes of DataUpdateCoordinator that hold the published snapshot.
NewCoordinator(zone) ==
    [zone |-> zone,
     last_zone_update |-> None, last_capacity_update |-> None,
     last_forecast_update |-> None,
     cached_zone_load |-> None, cached_capacity |-> None,
     cached_forecast_alerts |-> NotCached,
     data |-> EmptyData, last_update_success |-> TRUE]

\* The calls of _async_update_data that may be in progress together.
CycleIds == {1, 2}

\* The locals of a call of _async_update_data that has not started.
IdleCycle == [pc |-> "idle", now |-> 0, data |-> EmptyData, fetched |-> {}, failed |-> {}]

\* No refresh cycle is part of the behaviour.
NoCycle ==
    /\ coordinator = NewCoordinator(FALSE)
    /\ cycles = [c \in CycleIds |-> IdleCycle]
    /\ clock = 0

InitStatusWith(texts) ==
    /\ pc = "get_status"
    /\ api_status \in StatusResponses(texts)
    /\ status_data = NoStatusData
    /\ parsed_status = NoParsed
    /\ csv = NoCsv
    /\ forecast = NoForecast
    /\ NoCycle

InitStatus == InitStatusWith(StatusTexts)
InitOp4 == InitStatusWith(Op4Texts)

GetStatus ==
    /\ pc = "get_status"
    /\ status_data' = get_status(api_status)
    /\ pc' = "parse_status"
    /\ UNCHANGED <<api_status, parsed_status, forecastVars, cycleVars>>

ParseStatus ==
    /\ pc = "parse_status"
    /\ ~parse_status_raises(status_data)
    /\ parsed_status' = parse_status(status_data)
    /\ pc' = "return"
    /\ UNCHANGED <<api_status, status_data, forecastVars, cycleVars>>

ParseStatusRaises ==
    /\ pc = "parse_status"
    /\ parse_status_raises(status_data)
    /\ pc' = "UpdateFailed"
    /\ UNCHANGED <<api_status, status_data, parsed_status, forecastVars, cycleVars>>

NextStatus == GetStatus \/ ParseStatus \/ ParseStatusRaises

SpecStatus == InitStatus /\ [][NextStatus]_vars
SpecOp4 == InitOp4 /\ [][NextStatus]_vars

---------------------------------------------------------------------------
(* _extract_op4_action on its own: texts in which the three patterns match *)
(* different numbers, in and out of range.                                 *)

ExtractFragments ==
    { <<"o","p","4">>,
      <<"O","P","-","4">>,
      <<" ","A","c","t","i","o","n">>,
      <<" ","A","c","t","i","o","n"," ","1","2">>,
      <<" ","a","c","t","i","o","n"," ","5">>,
      <<"A","c","t","i","o","n"," ","0">>,
      <<" ","3">>, <<" ","1","2">>, <<" ","0">>, <<" "," ","0","1","1">>,
      <<"x">> }

ExtractTexts == {Concat(fs) : fs \in SeqUpTo(ExtractFragments, MaxFrags)}

InitExtract ==
    /\ pc = "extract_op4_action"
    /\ \E t \in ExtractTexts :
          status_data = [status |-> PyStr(t), raw |-> "status_dict", error |-> FALSE]
    /\ api_status = [kind |-> "None", has_Status |-> FALSE, Status |-> PyNone]
    /\ parsed_status = NoParsed
    /\ csv = NoCsv
    /\ forecast = NoForecast
    /\ NoCycle

\* action_num = self._extract_op4_action(status_text) (426).
ExtractOp4Action ==
    /\ pc = "extract_op4_action"
    /\ parsed_status' =
          [parsed_status EXCEPT !.op4_action = extract_op4_action(status_data.status.val)]
    /\ pc' = "extracted"
    /\ UNCHANGED <<api_status, status_data, forecastVars, cycleVars>>

NextExtract == ExtractOp4Action

SpecExtract == InitExtract /\ [][NextExtract]_vars

---------------------------------------------------------------------------
(* _get_forecast_alerts_csv.                                               *)
(*                                                                         *)
(* csv is the answer of the forecast URL: the request raises (timeout,     *)
(* connection error), or answers with an HTTP status and a body.  The body *)
(* is held as its non-blank lines already split into fields (lines         *)
(* 273-283): a row is [line_type |-> parts[0], label |-> parts[1],         *)
(* values |-> parts[2:]], with label "" when the line has one field only.  *)
(* Day labels and cells are character sequences.  The cells of the model   *)
(* are unsigned whole numbers, with or without thousands commas, or text   *)
(* that float() rejects.                                                   *)

LABEL_CSO == "Total Capacity Supply Obligation (CSO)"
LABEL_AVAILABLE == "Total Available Generation and Imports"
LABEL_OUTAGES == "Anticipated Cold Weather Outages"

\* s.replace(',', '')
remove_commas(s) == SelectSeq(s, LAMBDA c : c # ",")

\* float(s) raises ValueError.
float_raises(s) == s = << >> \/ \E q \in 1..Len(s) : s[q] \notin Digits

\* float(s), for a run of digits.
float(s) == int(s)

\* The loop over the lines (277-299): the last usable H row gives the days,
\* the last usable D row of a label gives the label's values.
RECURSIVE read_rows(_, _)
read_rows(rows, st) ==
    IF rows = << >> THEN st
    ELSE LET parts == Head(rows)
         IN  read_rows(Tail(rows),
                IF parts.line_type = "H" /\ Len(parts.values) > 0
                THEN [st EXCEPT !.days = parts.values]
                ELSE IF /\ parts.line_type = "D"
                        /\ parts.label # ""
                        /\ parts.values # << >>
                THEN [st EXCEPT !.data = (parts.label :> parts.values) @@ st.data]
                ELSE st)

NoRows == [days |-> << >>, data |-> [l \in {} |-> << >>]]

\* (avail_val - cso_val) / cso_val * 100 < limit, for cso_val # 0, in exact
\* arithmetic.
margin_below(avail_val, cso_val, limit) ==
    IF cso_val > 0
    THEN (avail_val - cso_val) * 100 < limit * cso_val
    ELSE (avail_val - cso_val) * 100 > limit * cso_val

\* One alert: its type, its keyword and the numbers its message is made of.
Alert(type, keyword, numbers) == [type |-> type, keyword |-> keyword, numbers |-> numbers]

margin_alert(avail_val, cso_val) ==
    Alert(IF margin_below(avail_val, cso_val, 0)
          THEN "Critical Reserve Margin" ELSE "Low Reserve Margin",
          "capacity", <<avail_val, cso_val>>)

outage_alert(outage_val) == Alert("High Cold Weather Outages", "outage", <<outage_val>>)

\* Mutant: days_ahead counts the days from 1.
DayEntry_from1(day, i, alert) ==
    [date |-> day, days_ahead |-> i + 1, alerts |-> <<alert>>, alert_count |-> 1]

\* The dict appended at 320-325 and at 348-357.
DayEntry(day, i, alert) ==
    [date |-> day, days_ahead |-> i, alerts |-> <<alert>>, alert_count |-> 1]

\* The margin loop (309-328) from the day at position k on (days_ahead k - 1).
\* A ValueError skips the day; a ZeroDivisionError leaves the loop.
RECURSIVE margin_pass(_, _, _, _, _)
margin_pass(days, cso, available, k, alerts) ==
    IF k > Len(days) THEN [alerts |-> alerts, raised |-> FALSE]
    ELSE IF k <= Len(cso) /\ k <= Len(available)
    THEN IF \/ float_raises(remove_commas(cso[k]))
            \/ float_raises(remove_commas(available[k]))
         THEN margin_pass(days, cso, available, k + 1, alerts)
         ELSE LET cso_val == float(remove_commas(cso[k]))
                  avail_val == float(remove_commas(available[k]))
              IN  IF cso_val = 0
                  THEN [alerts |-> alerts, raised |-> TRUE]
                  ELSE IF margin_below(avail_val, cso_val, 5)
                  THEN margin_pass(days, cso, available, k + 1,
                           Append(alerts,
                                  DayEntry(days[k], k - 1, margin_alert(avail_val, cso_val))))
                  ELSE margin_pass(days, cso, available, k + 1, alerts)
    ELSE margin_pass(days, cso, available, k + 1, alerts)

\* Mutant: an outage alert always opens a day entry of its own.
add_outage_unmerged(alerts, day, i, outage_val) ==
    Append(alerts, DayEntry(day, i, outage_alert(outage_val)))

\* Lines 338-357: the outage alert joins the day's entry, or opens one.
add_outage(alerts, day, i, outage_val) ==
    IF \E n \in 1..Len(alerts) : alerts[n].days_ahead = i
    THEN LET n == CHOOSE n \in 1..Len(alerts) :
                    /\ alerts[n].days_ahead = i
                    /\ \A m \in 1..(n - 1) : alerts[m].days_ahead # i
         IN  [alerts EXCEPT ![n].alerts = Append(@, outage_alert(outage_val)),
                            ![n].alert_count = @ + 1]
    ELSE Append(alerts, DayEntry(day, i, outage_alert(outage_val)))

\* The outage loop (333-359) from the day at position k on.
RECURSIVE outage_pass(_, _, _, _)
outage_pass(days, outages, k, alerts) ==
    IF k > Len(days) THEN alerts
    ELSE IF k <= Len(outages) /\ ~float_raises(remove_commas(outages[k]))
                              /\ float(remove_commas(outages[k])) > 3000
    THEN outage_pass(days, outages, k + 1,
                     add_outage(alerts, days[k], k - 1, float(remove_commas(outages[k]))))
    ELSE outage_pass(days, outages, k + 1, alerts)

\* Mutant: the total counts the day entries, not their alerts.
sum_alert_count_entries(alerts) == Len(alerts)

RECURSIVE sum_alert_count(_)
sum_alert_count(alerts) ==
    IF alerts = << >> THEN 0 ELSE Head(alerts).alert_count + sum_alert_count(Tail(alerts))

\* The margin loop, when both rows are there (305-328).
margin_alerts(st) ==
    IF LABEL_CSO \in DOMAIN st.data /\ LABEL_AVAILABLE \in DOMAIN st.data
    THEN margin_pass(st.days, st.data[LABEL_CSO], st.data[LABEL_AVAILABLE], 1, << >>)
    ELSE [alerts |-> << >>, raised |-> FALSE]

\* The outage loop, when the row is there (331-359).
outage_alerts(st, alerts) ==
    IF LABEL_OUTAGES \in DOMAIN st.data
    THEN outage_pass(st.days, st.data[LABEL_OUTAGES], 1, alerts)
    ELSE alerts

\* An exception leaves the try block of the analysis (a ZeroDivisionError).
analysis_raises(rows) == margin_alerts(read_rows(rows, NoRows)).raised

\* The dict returned at 361-366; total_alerts None stands for "no such key".
analysis_result(rows) ==
    LET st == read_rows(rows, NoRows)
        alerts == outage_alerts(st, margin_alerts(st).alerts)
    IN  [alerts |-> alerts,
         has_alerts |-> Len(alerts) > 0,
         total_alerts |-> sum_alert_count(alerts),
         error |-> FALSE]

\* The dicts returned at 264-268 and at 370-375.
not_200_result == [alerts |-> << >>, has_alerts |-> FALSE, total_alerts |-> None, error |-> FALSE]
except_result == [alerts |-> << >>, has_alerts |-> FALSE, total_alerts |-> None, error |-> TRUE]

---------------------------------------------------------------------------
(* The forecast CSVs of the model: a header row with up to MaxDays day     *)
(* labels, then the CSO, the Available and the Outages row, each left out  *)
(* or holding up to MaxDays cells.                                         *)

DayLabels == [k \in 1..MaxDays |-> <<"D","a","y">> \o str(k - 1)]

CsoCells == { <<"2","0","0","0","0">>, <<"2","1","0","0","0">>, <<"0">> }
AvailableCells ==
    { <<"2","0","5","0","0">>, <<"2","0","8","0","0">>, <<"2","1","0","0","0">>, <<"x">> }
OutageCells == { <<"3","0","0","0">>, <<"3",",","5","0","0">> }

Row(line_type, label, values) == [line_type |-> line_type, label |-> label, values |-> values]

\* No row, or one D row of the label with up to MaxDays of the cells.
DataRows(label, cells) ==
    {<< >>} \cup {<<Row("D", label, vs)>> : vs \in SeqUpTo(cells, MaxDays)}

ForecastBodies ==
    { <<Row("H", "", SubSeq(DayLabels, 1, d))>> \o c \o a \o o :
        d \in 0..MaxDays,
        c \in DataRows(LABEL_CSO, CsoCells),
        a \in DataRows(LABEL_AVAILABLE, AvailableCells),
        o \in DataRows(LABEL_OUTAGES, OutageCells) }

ForecastResponses ==
    {[raises |-> TRUE, status |-> 0, rows |-> << >>],
     [raises |-> FALSE, status |-> 500, rows |-> << >>]}
    \cup {[raises |-> FALSE, status |-> 200, rows |-> b] : b \in ForecastBodies}

InitForecast ==
    /\ pc = "get_forecast_alerts_csv"
    /\ csv \in ForecastResponses
    /\ forecast = NoForecast
    /\ api_status = [kind |-> "None", has_Status |-> FALSE, Status |-> PyNone]
    /\ status_data = NoStatusData
    /\ parsed_status = NoParsed
    /\ NoCycle

\* session.get raises, or the analysis does: the outer except answers.
ForecastExcept ==
    /\ pc = "get_forecast_alerts_csv"
    /\ csv.raises \/ (csv.status = 200 /\ analysis_raises(csv.rows))
    /\ forecast' = except_result
    /\ pc' = "forecast_returned"
    /\ UNCHANGED <<csv, statusVars, cycleVars>>

ForecastNot200 ==
    /\ pc = "get_forecast_alerts_csv"
    /\ ~csv.raises
    /\ csv.status # 200
    /\ forecast' = not_200_result
    /\ pc' = "forecast_returned"
    /\ UNCHANGED <<csv, statusVars, cycleVars>>

ForecastAnalyzed ==
    /\ pc = "get_forecast_alerts_csv"
    /\ ~csv.raises
    /\ csv.status = 200
    /\ ~analysis_raises(csv.rows)
    /\ forecast' = analysis_result(csv.rows)
    /\ pc' = "forecast_returned"
    /\ UNCHANGED <<csv, statusVars, cycleVars>>

NextForecast == ForecastExcept \/ ForecastNot200 \/ ForecastAnalyzed

SpecForecast == InitForecast /\ [][NextForecast]_vars

---------------------------------------------------------------------------
(* Forecast CSVs with repeated labels: a header row for all the days, then *)
(* up to MaxRows D rows, each a full row, a shorter row or a row without   *)
(* value fields of one of the three labels.                                *)

RepeatedRows ==
    { Row("D", LABEL_CSO, << <<"2","1","0","0","0">>, <<"2","1","0","0","0">> >>),
      Row("D", LABEL_CSO, << <<"2","0","0","0","0">> >>),
      Row("D", LABEL_CSO, << >>),
      Row("D", LABEL_AVAILABLE, << <<"2","0","8","0","0">>, <<"2","0","8","0","0">> >>),
      Row("D", LABEL_AVAILABLE, << <<"2","1","0","0","0">> >>),
      Row("D", LABEL_AVAILABLE, << >>),
      Row("D", LABEL_OUTAGES, << <<"3",",","5","0","0">>, <<"3",",","5","0","0">> >>),
      Row("D", LABEL_OUTAGES, << <<"3","0","0","0">> >>),
      Row("D", LABEL_OUTAGES, << >>) }

RepeatedBodies ==
    { <<Row("H", "", DayLabels)>> \o rs : rs \in SeqUpTo(RepeatedRows, MaxRows) }

RepeatedResponses ==
    {[raises |-> TRUE, status |-> 0, rows |-> << >>],
     [raises |-> FALSE, status |-> 500, rows |-> << >>]}
    \cup {[raises |-> FALSE, status |-> 200, rows |-> b] : b \in RepeatedBodies}

InitRepeated ==
    /\ pc = "get_forecast_alerts_csv"
    /\ csv \in RepeatedResponses
    /\ forecast = NoForecast
    /\ api_status = [kind |-> "None", has_Status |-> FALSE, Status |-> PyNone]
    /\ status_data = NoStatusData
    /\ parsed_status = NoParsed
    /\ NoCycle

SpecRepeated == InitRepeated /\ [][NextForecast]_vars

---------------------------------------------------------------------------
(* The fetch functions of a refresh cycle, as functions of what the        *)
(* network answers.  Loads and capacities are whole numbers of MW.         *)

\* _get_load: the exception, the empty answer, the last row's "Load".
get_load(api) ==
    CASE api.kind = "raise" ->
            [total_load |-> None, zone_load |-> None, error |-> TRUE]
      [] api.kind \in {"None", "empty"} ->
            [total_load |-> None, zone_load |-> None, error |-> FALSE]
      [] api.kind = "row" ->
            [total_load |-> api.Load, zone_load |-> None, error |-> FALSE]

\* A CSV answer read with pandas: an exception, an HTTP status, or a table
\* that has the wanted column or not, with a value or NaN (None) in it.
CsvResponse(kind, status, has_column, value) ==
    [kind |-> kind, status |-> status, has_column |-> has_column, value |-> value]

\* _get_zone_load_csv (179-214).
get_zone_load_csv(response) ==
    IF response.kind = "raise" THEN None
    ELSE IF response.status # 200 THEN None
    ELSE IF ~response.has_column THEN None
    ELSE response.value

FALLBACK_CAPACITY == 31500

\* _get_capacity_csv (216-251).
get_capacity_csv(response) ==
    IF response.kind = "raise" THEN FALLBACK_CAPACITY
    ELSE IF response.status # 200 THEN FALLBACK_CAPACITY
    ELSE IF response.has_column
    THEN IF response.value # None THEN response.value ELSE FALLBACK_CAPACITY
    ELSE FALLBACK_CAPACITY

\* _get_forecast_alerts_csv (253-375), every exit.
get_forecast_alerts_csv(response) ==
    IF response.raises THEN except_result
    ELSE IF response.status # 200 THEN not_200_result
    ELSE IF analysis_raises(response.rows) THEN except_result
    ELSE analysis_result(response.rows)

\* The fetch did not get its data: an exception or a status other than 200.
csv_failed(response) == response.kind = "raise" \/ response.status # 200
forecast_failed(response) ==
    response.raises \/ response.status # 200 \/ analysis_raises(response.rows)

\* round(num / den * 100, 1) in tenths, for den > 0: to the nearest tenth,
\* a tie to the even one.
round1(num, den) ==
    LET q == (num * 1000) \div den
        r == (num * 1000) % den
    IN  IF 2 * r < den THEN q
        ELSE IF 2 * r > den THEN q + 1
        ELSE IF q % 2 = 0 THEN q ELSE q + 1

\* Lines 115-120: both operands are tested for truth, so None and 0 alike
\* give no margin.
capacity_margin(capacity, total_load) ==
    IF capacity # None /\ capacity # 0 /\ total_load # None /\ total_load # 0
    THEN Margin(round1(capacity - total_load, capacity))
    ELSE NoMargin

ZONE_CADENCE == 600
CAPACITY_CADENCE == 1800
FORECAST_CADENCE == 1800

\* Mutant: a source is due only after more than its cadence.
due_after(last_update, now, cadence) ==
    last_update = None \/ now - last_update > cadence

\* last_update is None or (now - last_update).total_seconds() >= cadence.
due(last_update, now, cadence) ==
    last_update = None \/ now - last_update >= cadence

---------------------------------------------------------------------------
(* _async_update_data (75-139).  A call runs from one await to the next    *)
(* without interruption; st is [self |-> the coordinator, loc |-> the      *)
(* locals of the call], and each operator below runs the code from one     *)
(* point to the next await or to the end of the call.                      *)

set_key(data, key) == [data EXCEPT !.keys = @ \cup {key}]

\* Mutant: the host takes over the dict of a call that failed, as far as it
\* was written.
publish_unfinished(st) ==
    [st EXCEPT !.self.data = st.loc.data,
               !.self.last_update_success = st.loc.pc = "returned"]

\* DataUpdateCoordinator: the returned dict becomes coordinator.data; after
\* UpdateFailed the data stays and last_update_success is False.
publish(st) ==
    IF st.loc.pc = "returned"
    THEN [st EXCEPT !.self.data = st.loc.data, !.self.last_update_success = TRUE]
    ELSE [st EXCEPT !.self.last_update_success = FALSE]

\* Lines 131-139: parse the status, return the dict or raise UpdateFailed.
parse_and_return(st) ==
    publish(IF parse_status_raises(st.loc.data.status)
            THEN [st EXCEPT !.loc.pc = "UpdateFailed"]
            ELSE [st EXCEPT !.loc.pc = "returned",
                            !.loc.data = set_key([@ EXCEPT !.parsed_status = parse_status(st.loc.data.status)],
                                                 "parsed_status")])

\* Line 129, then the rest of the call.
use_forecast(st) ==
    parse_and_return(
        [st EXCEPT !.loc.data = set_key([@ EXCEPT !.forecast_alerts = st.self.cached_forecast_alerts],
                                        "forecast_alerts")])

\* Lines 123-126: fetch the forecast if it is due.
check_forecast(st) ==
    IF due(st.self.last_forecast_update, st.loc.now, FORECAST_CADENCE)
    THEN [st EXCEPT !.loc.pc = "await_forecast", !.loc.fetched = @ \cup {"forecast"}]
    ELSE use_forecast(st)

\* Lines 112-120, then the forecast.
use_capacity(st) ==
    check_forecast(
        [st EXCEPT !.loc.data =
            set_key(set_key([@ EXCEPT !.capacity = st.self.cached_capacity,
                                      !.capacity_margin =
                                          capacity_margin(st.self.cached_capacity, st.loc.data.load.total_load)],
                            "capacity"), "capacity_margin")])

\* Lines 106-109: fetch the capacity if it is due.
check_capacity(st) ==
    IF due(st.self.last_capacity_update, st.loc.now, CAPACITY_CADENCE)
    THEN [st EXCEPT !.loc.pc = "await_capacity", !.loc.fetched = @ \cup {"capacity"}]
    ELSE use_capacity(st)

\* Line 103, then the capacity.
use_zone_load(st) ==
    check_capacity([st EXCEPT !.loc.data.load.zone_load = st.self.cached_zone_load])

\* Lines 96-100: with a zone configured, fetch its load if it is due.
check_zone(st) ==
    IF st.self.zone
    THEN IF due(st.self.last_zone_update, st.loc.now, ZONE_CADENCE)
         THEN [st EXCEPT !.loc.pc = "await_zone", !.loc.fetched = @ \cup {"zone_load"}]
         ELSE use_zone_load(st)
    ELSE check_capacity(st)

\* Mark a fetch that failed in the locals of the call.
note(st, source, has_failed) ==
    IF has_failed THEN [st EXCEPT !.loc.failed = @ \cup {source}] ELSE st

\* The state a step of call c starts from, and what it leaves.
state_of(c) == [self |-> coordinator, loc |-> cycles[c]]

leaves(c, st) ==
    /\ coordinator' = st.self
    /\ cycles' = [cycles EXCEPT ![c] = st.loc]

---------------------------------------------------------------------------
(* The answers of the network in a refresh cycle.                          *)

TickSeconds == 300

CycleStatusResponses ==
    {[kind |-> "raise", has_Status |-> FALSE, Status |-> PyNone],
     [kind |-> "row", has_Status |-> TRUE, Status |-> PyNone],
     [kind |-> "row", has_Status |-> TRUE, Status |-> PyStr(kw_op_7)]}

LoadResponses ==
    {[kind |-> "raise", Load |-> None],
     [kind |-> "row", Load |-> 0], [kind |-> "row", Load |-> 28000]}

ZoneResponses ==
    {CsvResponse("raise", 0, FALSE, None), CsvResponse("http", 500, FALSE, None),
     CsvResponse("http", 200, TRUE, 1200)}

CapacityResponses ==
    {CsvResponse("raise", 0, FALSE, None), CsvResponse("http", 500, FALSE, None),
     CsvResponse("http", 200, TRUE, 30000), CsvResponse("http", 200, TRUE, 0)}

\* One day, with a Critical margin or with a CSO of 0.
CycleForecastBodies ==
    { <<Row("H", "", <<DayLabels[1]>>),
        Row("D", LABEL_CSO, <<c>>),
        Row("D", LABEL_AVAILABLE, << <<"2","0","8","0","0">> >>)>> :
        c \in {<<"2","1","0","0","0">>, <<"0">>} }

CycleForecastResponses ==
    {[raises |-> TRUE, status |-> 0, rows |-> << >>],
     [raises |-> FALSE, status |-> 500, rows |-> << >>]}
    \cup {[raises |-> FALSE, status |-> 200, rows |-> b] : b \in CycleForecastBodies}

\* What the network may answer to each fetch of a call.
CycleAnswers ==
    [status |-> CycleStatusResponses, load |-> LoadResponses, zone_load |-> ZoneResponses,
     capacity |-> CapacityResponses, forecast |-> CycleForecastResponses]

\* The answers to overlapping calls: every fetch succeeds, but for the zone
\* load, which may also fail.
OverlapAnswers ==
    [status |-> {[kind |-> "raise", has_Status |-> FALSE, Status |-> PyNone]},
     load |-> {[kind |-> "row", Load |-> 28000]},
     zone_load |-> {CsvResponse("http", 500, FALSE, None), CsvResponse("http", 200, TRUE, 1200)},
     capacity |-> {CsvResponse("http", 200, TRUE, 30000)},
     forecast |-> {r \in CycleForecastResponses : ~r.raises /\ r.status = 200 /\ ~analysis_raises(r.rows)}]

---------------------------------------------------------------------------
(* The steps of a refresh cycle.                                           *)

Running(c) == cycles[c].pc \notin {"idle", "returned", "UpdateFailed"}

\* The clock advances.  A call reads the clock at its start only (line 79):
\* with calls == CycleIds the ticks that fall inside a call are taken after
\* it, with calls == {} a tick may fall between the steps of a call.
Tick(calls) ==
    /\ \A c \in calls : ~Running(c)
    /\ clock + TickSeconds <= MaxTicks * TickSeconds
    /\ clock' = clock + TickSeconds
    /\ UNCHANGED <<coordinator, cycles, pc, statusVars, forecastVars>>

\* Lines 77-85: a call starts, reads the clock and awaits the status.  The
\* host starts a call only when none of the calls in others is running.
StartCycle(c, others) ==
    /\ ~Running(c)
    /\ \A o \in others : ~Running(o)
    /\ cycles' = [cycles EXCEPT ![c] = [IdleCycle EXCEPT !.pc = "await_status", !.now = clock]]
    /\ UNCHANGED <<coordinator, clock, pc, statusVars, forecastVars>>

\* Lines 83-92: _get_status has answered; the call awaits the load.
StatusReturns(c, answers) ==
    /\ cycles[c].pc = "await_status"
    /\ \E api \in answers.status :
          cycles' = [cycles EXCEPT ![c].pc = "await_load",
                                   ![c].data = set_key([@ EXCEPT !.status = get_status(api)], "status"),
                                   ![c].failed = IF api.kind = "raise" THEN @ \cup {"status"} ELSE @]
    /\ UNCHANGED <<coordinator, clock, pc, statusVars, forecastVars>>

\* Lines 90-100: _get_load has answered; the call goes on to the next await.
LoadReturns(c, answers) ==
    /\ cycles[c].pc = "await_load"
    /\ \E api \in answers.load :
          leaves(c, check_zone(note(
              [state_of(c) EXCEPT !.loc.data = set_key([@ EXCEPT !.load = get_load(api)], "load")],
              "load", api.kind = "raise")))
    /\ UNCHANGED <<clock, pc, statusVars, forecastVars>>

\* Lines 100-109: _get_zone_load_csv has answered.
ZoneReturns(c, answers) ==
    /\ cycles[c].pc = "await_zone"
    /\ \E response \in answers.zone_load :
          leaves(c, use_zone_load(note(
              [state_of(c) EXCEPT !.self.cached_zone_load = get_zone_load_csv(response),
                                  !.self.last_zone_update = cycles[c].now],
              "zone_load", csv_failed(response))))
    /\ UNCHANGED <<clock, pc, statusVars, forecastVars>>

\* Lines 109-126: _get_capacity_csv has answered.
CapacityReturns(c, answers) ==
    /\ cycles[c].pc = "await_capacity"
    /\ \E response \in answers.capacity :
          leaves(c, use_capacity(note(
              [state_of(c) EXCEPT !.self.cached_capacity = get_capacity_csv(response),
                                  !.self.last_capacity_update = cycles[c].now],
              "capacity", csv_failed(response))))
    /\ UNCHANGED <<clock, pc, statusVars, forecastVars>>

\* Lines 126-139: _get_forecast_alerts_csv has answered.
ForecastReturns(c, answers) ==
    /\ cycles[c].pc = "await_forecast"
    /\ \E response \in answers.forecast :
          leaves(c, use_forecast(note(
              [state_of(c) EXCEPT !.self.cached_forecast_alerts =
                                      Cached(get_forecast_alerts_csv(response)),
                                  !.self.last_forecast_update = cycles[c].now],
              "forecast", forecast_failed(response))))
    /\ UNCHANGED <<clock, pc, statusVars, forecastVars>>

InitCycle ==
    /\ coordinator \in {NewCoordinator(zone) : zone \in BOOLEAN}
    /\ cycles = [c \in CycleIds |-> IdleCycle]
    /\ clock = 0
    /\ pc = "async_update_data"
    /\ api_status = [kind |-> "None", has_Status |-> FALSE, Status |-> PyNone]
    /\ status_data = NoStatusData
    /\ parsed_status = NoParsed
    /\ csv = NoCsv
    /\ forecast = NoForecast

\* The host's scheduler: one call at a time.
NextCycle ==
    \/ Tick(CycleIds)
    \/ StartCycle(1, CycleIds)
    \/ StatusReturns(1, CycleAnswers)
    \/ LoadReturns(1, CycleAnswers)
    \/ ZoneReturns(1, CycleAnswers)
    \/ CapacityReturns(1, CycleAnswers)
    \/ ForecastReturns(1, CycleAnswers)

SpecCycle == InitCycle /\ [][NextCycle]_vars

\* Calls that may overlap: a second call starts while the first is suspended
\* at an await.
NextOverlap ==
    \/ Tick({})
    \/ \E c \in CycleIds :
          \/ StartCycle(c, {})
          \/ StatusReturns(c, OverlapAnswers)
          \/ LoadReturns(c, OverlapAnswers)
          \/ ZoneReturns(c, OverlapAnswers)
          \/ CapacityReturns(c, OverlapAnswers)
          \/ ForecastReturns(c, OverlapAnswers)

SpecOverlap == InitCycle /\ [][NextOverlap]_vars


---------------------------------------------------------------------------
(* The entities that read the published snapshot.                          *)

\* A state string of the Forecast Alerts sensor: its wording, and the two
\* numbers the f-strings put into it (None where the wording has none).
SensorState(text, days, total) == [text |-> text, days |-> days, total |-> total]

\* ISONEForecastAlertsSensor.native_value (sensor.py 433-458) on the snapshot
\* data; a snapshot without keys is "not self.coordinator.data".
native_value(data) ==
    IF data.keys = {} THEN SensorState("No Data", None, None)
    ELSE IF \/ "forecast_alerts" \notin data.keys
            \/ data.forecast_alerts.is_none
            \/ ~data.forecast_alerts.value.has_alerts
    THEN SensorState("No Alerts", None, None)
    ELSE LET forecast_data == data.forecast_alerts.value
             total_alerts == IF forecast_data.total_alerts = None
                             THEN 0 ELSE forecast_data.total_alerts
             alerts == forecast_data.alerts
         IN  IF alerts # << >>
             THEN LET nearest == alerts[1]
                      days == nearest.days_ahead
                  IN  IF days = 0 THEN SensorState("Alert Today", None, total_alerts)
                      ELSE IF days = 1 THEN SensorState("Alert Tomorrow", None, total_alerts)
                      ELSE SensorState("Alert in {days} days", days, total_alerts)
             ELSE SensorState("No Alerts", None, None)

\* Mutant: the sensor is on for severity EMERGENCY only.
is_on_emergency_only(data) ==
    /\ data.keys # {}
    /\ "parsed_status" \in data.keys
    /\ data.parsed_status.severity = SEVERITY_EMERGENCY

\* ISONEGridEmergencyBinarySensor.is_on (binary_sensor.py 68-75).
is_on(data) ==
    IF data.keys = {} THEN FALSE
    ELSE IF "parsed_status" \notin data.keys THEN FALSE
    ELSE data.parsed_status.is_emergency

---------------------------------------------------------------------------
(* The classification as the specification states it: an ordered list of   *)
(* rules, of which the first that matches decides the whole record.        *)

\* The text handed to _parse_status.
StatusText == status_data.status.val

RuleMatches(k, low) ==
    CASE k = 1 -> \/ Contains(low, kw_op_7) \/ Contains(low, kw_op7)
                  \/ Contains(low, kw_load_shed)
      [] k = 2 -> Contains(low, kw_eea) \/ Contains(low, kw_energy_emergency_alert)
      [] k = 3 -> Contains(low, kw_op_4) \/ Contains(low, kw_op4)
      [] k = 4 -> \/ Contains(low, kw_m_lcc) \/ Contains(low, kw_mlcc)
                  \/ Contains(low, kw_abnormal)
      [] k = 5 -> Contains(low, kw_power_warning)
      [] k = 6 -> Contains(low, kw_power_watch)
      [] k = 7 -> Contains(low, kw_power_caution)
      [] k = 8 -> TRUE

\* The first rule of the list that matches (the last one always does).
RECURSIVE FirstRuleFrom(_, _)
FirstRuleFrom(k, low) ==
    IF RuleMatches(k, low) THEN k ELSE FirstRuleFrom(k + 1, low)

FirstRule(low) == FirstRuleFrom(1, low)

\* What rule k alone makes of the text.
RuleRecord(k, text) ==
    LET b == baseline(text)
    IN  CASE k = 1 -> [b EXCEPT !.status = STATUS_OP7, !.severity = 5,
                                !.description =
                                    Description("Emergency - Load shedding may occur", None),
                                !.is_emergency = TRUE]
          [] k = 2 -> eea_branch(b, lower(text))
          [] k = 3 -> op4_branch(b, text)
          [] k = 4 -> [b EXCEPT !.status = STATUS_MLCC2, !.severity = 1,
                                !.description = Description("Abnormal conditions alert", None)]
          [] k = 5 -> [b EXCEPT !.severity = 4, !.is_emergency = TRUE,
                                !.description =
                                    Description("Power Warning - Immediate reduction needed", None)]
          [] k = 6 -> [b EXCEPT !.severity = 3,
                                !.description =
                                    Description("Power Watch - Conservation may be needed", None)]
          [] k = 7 -> [b EXCEPT !.severity = 2,
                                !.description =
                                    Description("Power Caution - Resources on alert", None)]
          [] k = 8 -> b

\* C1: the record returned by _parse_status is the record of the first rule
\* that matches the lower-cased text, in the order OP-7, EEA, OP-4, M/LCC,
\* power warning, power watch, power caution, Normal; no later rule changes
\* a field of it.
C1_FirstMatchWins ==
    pc = "return" =>
        parsed_status = RuleRecord(FirstRule(lower(StatusText)), StatusText)

\* A text that three rules match, none of them the first of the list.
C1_Witness ==
    /\ pc = "return"
    /\ ~RuleMatches(1, lower(StatusText))
    /\ RuleMatches(2, lower(StatusText))
    /\ RuleMatches(3, lower(StatusText))
    /\ RuleMatches(6, lower(StatusText))
    /\ parsed_status = baseline(StatusText)

\* "op-7" in each letter case.
OP7Spellings ==
    { <<o, p, "-", "7">> : o \in {"o", "O"}, p \in {"p", "P"} }

NamesOP7(text) == \E w \in OP7Spellings : Contains(text, w)

\* C2: a status text that contains "op-7" in any letter case, whatever else
\* it contains, is classified with severity 5 and is_emergency true.
C2_OP7AlwaysEmergency ==
    (pc = "return" /\ NamesOP7(StatusText)) =>
        (parsed_status.severity = 5 /\ parsed_status.is_emergency)

\* "Op-7" in mixed case, in a text that also names EEA and an OP-4 action.
C2_Witness ==
    /\ pc = "return"
    /\ Contains(StatusText, <<"O","p","-","7">>)
    /\ RuleMatches(2, lower(StatusText))
    /\ RuleMatches(3, lower(StatusText))
    /\ parsed_status.severity = 5
    /\ parsed_status.is_emergency

---------------------------------------------------------------------------
(* Texts of the form "OP-4 Action {n}".                                    *)

Op4ActionTemplate == <<"o","p","-","4"," ","a","c","t","i","o","n"," ">>

HasDigit(s) == \E q \in 1..Len(s) : s[q] \in Digits

\* The lower-cased text holds "op-4 action " and a number at p, and the
\* words before and after them hold no digit.
IsOp4ActionAt(low, p) ==
    LET d == p + Len(Op4ActionTemplate)
        e == RunEnd(low, d, Digits)
    IN  /\ LitAt(low, p, Op4ActionTemplate)
        /\ e > d
        /\ ~HasDigit(SubSeq(low, 1, p - 1))
        /\ ~HasDigit(SubSeq(low, e, Len(low)))

\* The number n of such a text.
Op4ActionNumber(text, p) ==
    LET d == p + Len(Op4ActionTemplate)
    IN  int(SubSeq(text, d, RunEnd(text, d, Digits) - 1))

Op4Step(n) == IF n >= 10 THEN 5 ELSE IF n >= 6 THEN 4 ELSE IF n >= 4 THEN 3 ELSE 2

Op4Expected(n, r) ==
    IF n \in 1..11
    THEN /\ r.status = STATUS_OP4
         /\ r.op4_action = n
         /\ r.severity = Op4Step(n)
         /\ r.is_emergency = (n >= 6)
    ELSE /\ r.op4_action = None
         /\ r.severity = 2
         /\ ~r.is_emergency

\* C3: for a status text "OP-4 Action {n}" (in surrounding words that hold
\* no digit and name neither OP-7 nor EEA), n in 1..11 gives status OP-4,
\* op4_action n and the severity of the step function (>= 10: 5, >= 6: 4,
\* both emergencies; >= 4: 3, 1..3: 2, no emergency); any other n gives
\* op4_action none, severity 2, no emergency.
C3_Op4Action ==
    pc = "return" =>
        LET low == lower(StatusText)
        IN  \A p \in 1..Len(StatusText) :
                ( /\ IsOp4ActionAt(low, p)
                  /\ ~RuleMatches(1, low)
                  /\ ~RuleMatches(2, low) )
                => Op4Expected(Op4ActionNumber(StatusText, p), parsed_status)

\* The scenario "System in OP-4 Action 9 - Industrial Curtailment".
C3_Witness ==
    /\ pc = "return"
    /\ StatusText =
         <<"S","y","s","t","e","m"," ","i","n"," ",
           "O","P","-","4"," ","A","c","t","i","o","n"," ","9",
           " ","-"," ","I","n","d","u","s","t","r","i","a","l"," ",
           "C","u","r","t","a","i","l","m","e","n","t">>
    /\ IsOp4ActionAt(lower(StatusText), 11)
    /\ parsed_status.status = STATUS_OP4
    /\ parsed_status.op4_action = 9
    /\ parsed_status.severity = 4
    /\ parsed_status.is_emergency

---------------------------------------------------------------------------

HasEEALevelPhrase(low) ==
    \E d \in {"1", "2", "3"} :
        Contains(low, kw_eea_n(d)) \/ Contains(low, kw_eea_level_n(d))

\* C4: a text that names EEA (and no OP-7 trigger) without any of the level
\* phrases keeps the record the EEA branch starts from: eea_level and
\* op4_action none and the default description; no later rule is applied,
\* even when its keyword is in the text.
C4_EEAWithoutLevel ==
    ( /\ pc = "return"
      /\ LET low == lower(StatusText)
         IN  /\ RuleMatches(2, low)
             /\ ~RuleMatches(1, low)
             /\ ~HasEEALevelPhrase(low) )
    => /\ parsed_status.eea_level = None
       /\ parsed_status.op4_action = None
       /\ parsed_status.description = Description("Grid operating normally", None)
       /\ parsed_status.severity = 0
       /\ ~parsed_status.is_emergency
       /\ parsed_status.status = StatusText

\* An EEA text without a level that also names OP-4 with an action number.
C4_Witness ==
    /\ pc = "return"
    /\ RuleMatches(2, lower(StatusText))
    /\ ~RuleMatches(1, lower(StatusText))
    /\ ~HasEEALevelPhrase(lower(StatusText))
    /\ RuleMatches(3, lower(StatusText))
    /\ extract_op4_action(StatusText) = 9
    /\ parsed_status.op4_action = None

\* C5: op4_action and eea_level are never both set; op4_action is set only
\* when OP-4 is the rule that matched, eea_level only when EEA is.
C5_ExclusiveFields ==
    pc = "return" =>
        /\ ~(parsed_status.op4_action # None /\ parsed_status.eea_level # None)
        /\ (parsed_status.op4_action # None) => (FirstRule(lower(StatusText)) = 3)
        /\ (parsed_status.eea_level # None) => (FirstRule(lower(StatusText)) = 2)

\* A text with an EEA level and an OP-4 action number: only eea_level is set.
C5_Witness ==
    /\ pc = "return"
    /\ HasEEALevelPhrase(lower(StatusText))
    /\ RuleMatches(3, lower(StatusText))
    /\ extract_op4_action(StatusText) = 9
    /\ parsed_status.eea_level = 2
    /\ parsed_status.op4_action = None

\* The status fetch handed over an anomaly: an error, no data, or a row
\* whose Status is missing or is no text.
StatusAnomaly ==
    \/ api_status.kind \in {"raise", "None", "empty"}
    \/ ~api_status.has_Status
    \/ api_status.Status.type # "str"

\* C6: status parsing is total.  Whatever the status fetch hands over,
\* _parse_status returns a record and the cycle does not fail; on an anomaly
\* and on a classification miss the record is the Normal baseline.
C6_ParseIsTotal ==
    /\ pc # "UpdateFailed"
    /\ (pc = "return" /\ (StatusAnomaly \/ FirstRule(lower(StatusText)) = 8)) =>
          /\ parsed_status.severity = 0
          /\ parsed_status.description = Description("Grid operating normally", None)
          /\ ~parsed_status.is_emergency
          /\ parsed_status.op4_action = None
          /\ parsed_status.eea_level = None

---------------------------------------------------------------------------
(* The forecast analysis as the specification states it, read off the CSV  *)
(* day by day and compared with the returned dict.                         *)

ForecastReturned == pc = "forecast_returned" /\ ~csv.raises /\ csv.status = 200

ForecastInput == read_rows(csv.rows, NoRows)

\* The day indexes of the header row, counted from 0 as days_ahead is.
DayIndexes == 0..(Len(ForecastInput.days) - 1)

\* The row of a label has a numeric cell for day i.
NumericCell(label, i) ==
    /\ label \in DOMAIN ForecastInput.data
    /\ i + 1 <= Len(ForecastInput.data[label])
    /\ ~float_raises(remove_commas(ForecastInput.data[label][i + 1]))

CellValue(label, i) == float(remove_commas(ForecastInput.data[label][i + 1]))

MarginTypes == {"Critical Reserve Margin", "Low Reserve Margin"}

\* The margin alerts the specification gives day i: Critical below 0,
\* Low from 0 up to 5, none from 5 on, none where the margin cannot be
\* computed.
ExpectedMarginTypes(i) ==
    IF NumericCell(LABEL_CSO, i) /\ NumericCell(LABEL_AVAILABLE, i)
          /\ CellValue(LABEL_CSO, i) > 0
    THEN LET c == CellValue(LABEL_CSO, i)
             a == CellValue(LABEL_AVAILABLE, i)
         IN  IF a < c THEN {"Critical Reserve Margin"}
             ELSE IF (a - c) * 100 < 5 * c THEN {"Low Reserve Margin"}
             ELSE {}
    ELSE {}

ExpectedOutage(i) ==
    NumericCell(LABEL_OUTAGES, i) /\ CellValue(LABEL_OUTAGES, i) > 3000

\* The positions of the result's entries for day i, and their alert types.
EntriesOfDay(i) == {n \in 1..Len(forecast.alerts) : forecast.alerts[n].days_ahead = i}

TypesOfDay(i) ==
    UNION {{forecast.alerts[n].alerts[m].type : m \in 1..Len(forecast.alerts[n].alerts)} :
              n \in EntriesOfDay(i)}

AlertTypes(entry) == [m \in 1..Len(entry.alerts) |-> entry.alerts[m].type]

ScenarioBody ==
    << Row("H", "", <<DayLabels[1], DayLabels[2]>>),
       Row("D", LABEL_CSO, << <<"2","0","0","0","0">>, <<"2","1","0","0","0">> >>),
       Row("D", LABEL_AVAILABLE, << <<"2","0","5","0","0">>, <<"2","0","8","0","0">> >>) >>

\* C7: when the forecast analysis has returned, every day whose CSO and
\* Available cells are both numeric (with a CSO other than 0) holds exactly
\* the margin alert of its margin: Critical below 0, Low from 0 up to 5,
\* none from 5 on; and the CSV of the scenario gives Low on day 0, Critical
\* on day 1 and total_alerts 2.
C7_MarginAlertPerDay ==
    ForecastReturned =>
        /\ \A i \in DayIndexes :
              (/\ NumericCell(LABEL_CSO, i) /\ NumericCell(LABEL_AVAILABLE, i)
               /\ CellValue(LABEL_CSO, i) # 0)
              => TypesOfDay(i) \cap MarginTypes = ExpectedMarginTypes(i)
        /\ csv.rows = ScenarioBody =>
              /\ TypesOfDay(0) = {"Low Reserve Margin"}
              /\ TypesOfDay(1) = {"Critical Reserve Margin"}
              /\ forecast.total_alerts = 2

\* Day i has a CSO of 0 in the CSV.
ZeroCSO(i) == NumericCell(LABEL_CSO, i) /\ CellValue(LABEL_CSO, i) = 0

\* C8: when the CSO of some day is 0, the analysis does not fail: that day
\* has no margin alert and every other day holds the margin and the outage
\* alerts its cells call for.
C8_ZeroCSOIsSkipped ==
    (ForecastReturned /\ \E i \in DayIndexes : ZeroCSO(i)) =>
        /\ ~forecast.error
        /\ \A i \in DayIndexes :
              /\ TypesOfDay(i) \cap MarginTypes = ExpectedMarginTypes(i)
              /\ ("High Cold Weather Outages" \in TypesOfDay(i)) <=> ExpectedOutage(i)

\* C9: the day entries of every forecast result are in strictly increasing
\* order of days_ahead, whichever loop created them.
C9_SortedByDaysAhead ==
    ForecastReturned =>
        \A n \in 1..Len(forecast.alerts) : \A m \in 1..Len(forecast.alerts) :
            n < m => forecast.alerts[n].days_ahead < forecast.alerts[m].days_ahead

\* The margin loop reaches day i and appends its alert; the outage loop, which
\* runs once the margin loop has finished without raising, reaches day i and
\* adds its alert.
MarginFires(i) == ExpectedMarginTypes(i) # {}
OutageFires(i) == ~analysis_raises(csv.rows) /\ ExpectedOutage(i)

\* C10: no two day entries of a forecast result have the same days_ahead;
\* when a margin alert and an outage alert both fire for day i, the result
\* has exactly one entry for day i, holding the margin alert followed by the
\* outage alert, with alert_count 2.
C10_OneEntryPerDay ==
    pc = "forecast_returned" =>
        /\ \A n \in 1..Len(forecast.alerts) : \A m \in 1..Len(forecast.alerts) :
              forecast.alerts[n].days_ahead = forecast.alerts[m].days_ahead => n = m
        /\ \A i \in DayIndexes :
              (MarginFires(i) /\ OutageFires(i)) =>
                  /\ Cardinality(EntriesOfDay(i)) = 1
                  /\ \A n \in EntriesOfDay(i) :
                        /\ Len(forecast.alerts[n].alerts) = 2
                        /\ AlertTypes(forecast.alerts[n])[1] \in ExpectedMarginTypes(i)
                        /\ AlertTypes(forecast.alerts[n])[2] = "High Cold Weather Outages"
                        /\ forecast.alerts[n].alert_count = 2

\* A result whose second day holds a Critical margin alert merged with an
\* outage alert, after a first day with an entry of its own.
C10_Witness ==
    /\ pc = "forecast_returned"
    /\ Len(forecast.alerts) = 2
    /\ MarginFires(1) /\ OutageFires(1)
    /\ forecast.alerts[2].days_ahead = 1
    /\ AlertTypes(forecast.alerts[2]) = <<"Critical Reserve Margin", "High Cold Weather Outages">>
    /\ forecast.alerts[2].alert_count = 2
    /\ forecast.total_alerts = 3

\* The sum of alert_count over the entries at positions 1..n of the result.
RECURSIVE CountUpTo(_)
CountUpTo(n) == IF n = 0 THEN 0 ELSE CountUpTo(n - 1) + forecast.alerts[n].alert_count

\* C11: in every forecast result of a parse that succeeded, total_alerts is
\* the sum of alert_count over the day entries and has_alerts is true exactly
\* when there is a day entry.
C11_TotalsOfResult ==
    (ForecastReturned /\ ~forecast.error) =>
        /\ forecast.total_alerts = CountUpTo(Len(forecast.alerts))
        /\ forecast.has_alerts <=> forecast.alerts # << >>

\* A parsed result with two day entries and three alerts.
C11_Witness ==
    /\ ForecastReturned /\ ~forecast.error
    /\ forecast.has_alerts
    /\ Len(forecast.alerts) = 2
    /\ forecast.alerts[1].alert_count = 2
    /\ forecast.total_alerts = 3

\* The fetch or the parse of the forecast failed.
ForecastFailed ==
    /\ pc = "forecast_returned"
    /\ csv.raises \/ csv.status # 200 \/ analysis_raises(csv.rows)

\* C12: on a fetch failure or a parse failure the forecast analysis returns
\* alerts = [], has_alerts = false and total_alerts = 0.
C12_FailureResult ==
    ForecastFailed =>
        /\ forecast.alerts = << >>
        /\ ~forecast.has_alerts
        /\ forecast.total_alerts = 0

---------------------------------------------------------------------------
(* The refresh cycle as the specification states it.                       *)

CachedSources == {"zone_load", "capacity", "forecast"}

Cadence(source) == IF source = "zone_load" THEN 600 ELSE 1800

\* The last-fetch timestamp and the cached value the coordinator self holds
\* for a source, and the value a snapshot reports for it.
LastFetch(source, self) ==
    CASE source = "zone_load" -> self.last_zone_update
      [] source = "capacity" -> self.last_capacity_update
      [] source = "forecast" -> self.last_forecast_update

CachedValue(source, self) ==
    CASE source = "zone_load" -> self.cached_zone_load
      [] source = "capacity" -> self.cached_capacity
      [] source = "forecast" -> self.cached_forecast_alerts

SnapshotValue(source, data) ==
    CASE source = "zone_load" -> data.load.zone_load
      [] source = "capacity" -> data.capacity
      [] source = "forecast" -> data.forecast_alerts

AwaitOf(source) ==
    CASE source = "zone_load" -> "await_zone"
      [] source = "capacity" -> "await_capacity"
      [] source = "forecast" -> "await_forecast"

\* How far a call has come: 1 and 2 while it awaits the status and the load,
\* 3 to 5 at the fetch of a cached source, 6 once it has ended.
Stage(p) ==
    CASE p = "idle" -> 0
      [] p = "await_status" -> 1
      [] p = "await_load" -> 2
      [] p = "await_zone" -> 3
      [] p = "await_capacity" -> 4
      [] p = "await_forecast" -> 5
      [] p \in {"returned", "UpdateFailed"} -> 6

CheckStage(source) == Stage(AwaitOf(source))

\* In this step call c decides whether to fetch the source.
ChecksSource(c, source) ==
    /\ Stage(cycles[c].pc) \in 1..(CheckStage(source) - 1)
    /\ Stage(cycles'[c].pc) >= CheckStage(source)

\* In this step the fetch of the source by call c answers.
FetchReturns(c, source) ==
    /\ cycles[c].pc = AwaitOf(source)
    /\ cycles'[c].pc # AwaitOf(source)

\* In this step call c ends.
CycleEnds(c) == Running(c) /\ ~Running(c)'

IsDue(last_fetch, now, cadence) == last_fetch = None \/ now - last_fetch >= cadence

\* What a call does for a source at its check, given whether it should fetch.
FetchesExactlyWhen(c, source, should_fetch) ==
    /\ (source \in cycles'[c].fetched) <=> should_fetch
    /\ ~should_fetch =>
          /\ cycles'[c].pc # AwaitOf(source)
          /\ SnapshotValue(source, cycles'[c].data) = CachedValue(source, coordinator)
          /\ LastFetch(source, coordinator') = LastFetch(source, coordinator)

StatusAndLoadFetched(c) == CycleEnds(c) => {"status", "load"} \subseteq cycles'[c].data.keys

\* C13 as stated: in every cycle each cached source is fetched exactly when it
\* has no prior fetch or its cadence has elapsed, and is otherwise reused from
\* the cache; status and load are fetched in every cycle.
C13_FetchedIffDue ==
    [][\A c \in CycleIds :
          /\ \A source \in CachedSources :
                ChecksSource(c, source) =>
                    FetchesExactlyWhen(c, source,
                        IsDue(LastFetch(source, coordinator), cycles[c].now, Cadence(source)))
          /\ StatusAndLoadFetched(c)]_vars

\* C13, amended: the zone load is a cached source only when a zone is
\* configured; without one it is never fetched.  The capacity, the forecast
\* and the zone load of a configured zone are fetched exactly when they have
\* no prior fetch or their cadence has elapsed since the last one, so two
\* fetches of a source are at least one cadence apart.
C13_FetchedIffDueAndConfigured ==
    [][\A c \in CycleIds :
          /\ \A source \in CachedSources :
                ChecksSource(c, source) =>
                    FetchesExactlyWhen(c, source,
                        /\ source = "zone_load" => coordinator.zone
                        /\ IsDue(LastFetch(source, coordinator), cycles[c].now, Cadence(source)))
          /\ StatusAndLoadFetched(c)]_vars

\* A cycle 600 s after the first fetches has fetched the zone load, exactly
\* due, and has reused the capacity and the forecast.
C13_Witness ==
    /\ cycles[1].pc = "returned"
    /\ cycles[1].now = 600
    /\ cycles[1].fetched = {"zone_load"}
    /\ coordinator.last_zone_update = 600
    /\ coordinator.last_capacity_update = 0
    /\ coordinator.last_forecast_update = 0
    /\ cycles[1].data.capacity = coordinator.cached_capacity

\* In this step the fetch of the source by call c answers with a failure.
FetchFails(c, source) == FetchReturns(c, source) /\ source \in cycles'[c].failed

\* C14: when a due fetch of a cached source fails, the source's cached value
\* after the step is the one it had before, and the snapshot reports it; a
\* value fetched earlier is never replaced by the outcome of a failed fetch.
C14_StaleValueRetained ==
    [][\A c \in CycleIds : \A source \in CachedSources :
          (FetchFails(c, source) /\ LastFetch(source, coordinator) # None) =>
              /\ CachedValue(source, coordinator') = CachedValue(source, coordinator)
              /\ SnapshotValue(source, cycles'[c].data) = CachedValue(source, coordinator)]_vars

\* C15: the last-fetch timestamp of a source changes only in a step in which
\* a fetch of that source has succeeded.
C15_TimestampOnlyOnSuccess ==
    [][\A source \in CachedSources :
          LastFetch(source, coordinator') # LastFetch(source, coordinator) =>
              \E c \in CycleIds : FetchReturns(c, source) /\ ~FetchFails(c, source)]_vars

\* C16: when the capacity fetch fails (HTTP 500, any status but 200), the
\* capacity of the cycle is the capacity cached before, and 31500 only when
\* none was cached.
C16_CapacityFallback ==
    [][\A c \in CycleIds :
          FetchFails(c, "capacity") =>
              cycles'[c].data.capacity =
                  IF coordinator.cached_capacity # None
                  THEN coordinator.cached_capacity ELSE 31500]_vars

\* C17: in a returned snapshot capacity_margin is none exactly when the
\* capacity is missing or 0 or the total load is missing; otherwise, a load
\* of 0 included, it is (capacity - total_load) / capacity * 100 rounded to
\* one decimal.
C17_MarginOfSnapshot ==
    \A c \in CycleIds :
        cycles[c].pc = "returned" =>
            LET data == cycles[c].data
                no_margin == \/ data.capacity = None
                             \/ data.capacity = 0
                             \/ data.load.total_load = None
            IN  /\ data.capacity_margin.is_none <=> no_margin
                /\ ~no_margin =>
                      data.capacity_margin.tenths =
                          round1(data.capacity - data.load.total_load, data.capacity)

SnapshotKeys ==
    {"status", "load", "capacity", "capacity_margin", "forecast_alerts", "parsed_status"}

\* C18: coordinator.data changes only in the step that ends a cycle with a
\* returned dict, and then is that dict, whole; a cycle that ends with
\* UpdateFailed reports the failure and leaves coordinator.data as it was; at
\* no time does coordinator.data hold only some of the keys of a cycle.
C18_SnapshotPublishedWhole ==
    [][/\ coordinator'.data # coordinator.data =>
              \E c \in CycleIds :
                  /\ CycleEnds(c)
                  /\ cycles'[c].pc = "returned"
                  /\ coordinator'.data = cycles'[c].data
       /\ \A c \in CycleIds :
              (CycleEnds(c) /\ cycles'[c].pc = "UpdateFailed") =>
                  /\ coordinator'.data = coordinator.data
                  /\ ~coordinator'.last_update_success
       /\ coordinator'.data.keys \in {{}, SnapshotKeys}]_vars

\* A cycle has failed after it wrote five of its keys, and the snapshot of an
\* earlier cycle is still the published one.
C18_Witness ==
    /\ cycles[1].pc = "UpdateFailed"
    /\ cycles[1].data.keys = SnapshotKeys \ {"parsed_status"}
    /\ ~coordinator.last_update_success
    /\ coordinator.data.keys = SnapshotKeys
    /\ coordinator.data.load # cycles[1].data.load

\* C19: whatever fetches of a cycle fail, the cycle is not aborted: it ends
\* with a returned snapshot that holds all six keys, a failed source standing
\* in it with its cached or fallback value.
C19_CycleNeverAborted ==
    \A c \in CycleIds :
        /\ cycles[c].pc # "UpdateFailed"
        /\ cycles[c].pc = "returned" =>
              /\ cycles[c].data.keys = SnapshotKeys
              /\ "status" \in cycles[c].failed =>
                    cycles[c].data.status.status = PyStr(STATUS_NORMAL)
              /\ "load" \in cycles[c].failed => cycles[c].data.load.total_load = None
              /\ \A source \in CachedSources :
                    source \in cycles[c].failed =>
                        SnapshotValue(source, cycles[c].data) = CachedValue(source, coordinator)

\* C20: a source is not fetched by two calls at once: while one call awaits
\* the fetch it decided on, no other call awaits a fetch of the same source.
C20_FetchedByOneCall ==
    \A source \in CachedSources : \A c1 \in CycleIds : \A c2 \in CycleIds :
        (cycles[c1].pc = AwaitOf(source) /\ cycles[c2].pc = AwaitOf(source)) => c1 = c2

---------------------------------------------------------------------------
(* Malformed forecast cells.                                               *)

ForecastLabels == {LABEL_CSO, LABEL_AVAILABLE, LABEL_OUTAGES}

\* The cell of the label's row for day i is absent or is not a number.
MalformedCell(label, i) == ~NumericCell(label, i)

\* The alert types the cell of a label takes part in.
KindOf(label) ==
    IF label = LABEL_OUTAGES THEN {"High Cold Weather Outages"} ELSE MarginTypes

\* C21: when the CSO, Available or Outages cell of day i is non-numeric or
\* absent, the result has no alert of that cell's kind for day i, nothing is
\* raised, and every other alert is the one its own cells call for.
C21_MalformedCellIsLocal ==
    ForecastReturned =>
        \A label \in ForecastLabels : \A i \in DayIndexes :
            MalformedCell(label, i) =>
                /\ TypesOfDay(i) \cap KindOf(label) = {}
                /\ ~forecast.error
                /\ \A j \in DayIndexes :
                      /\ TypesOfDay(j) \cap MarginTypes = ExpectedMarginTypes(j)
                      /\ ("High Cold Weather Outages" \in TypesOfDay(j)) <=> ExpectedOutage(j)

---------------------------------------------------------------------------
(* The shape of the day entries.                                           *)

\* The positions of the H rows of the response that carry day labels.
UsableHeaders == {n \in 1..Len(csv.rows) :
                    csv.rows[n].line_type = "H" /\ csv.rows[n].values # << >>}

\* The day labels of the last of them; none when there is no such row.
LastHeaderLabels ==
    IF UsableHeaders = {} THEN << >>
    ELSE csv.rows[CHOOSE n \in UsableHeaders : \A m \in UsableHeaders : m <= n].values

WellFormedEntry(entry) ==
    /\ entry.alerts # << >>
    /\ entry.alert_count = Len(entry.alerts)
    /\ entry.alert_count \in {1, 2}
    /\ entry.days_ahead >= 0
    /\ entry.days_ahead < Len(LastHeaderLabels)
    /\ entry.date = LastHeaderLabels[entry.days_ahead + 1]

\* C25: every day entry of a forecast result has one or two alerts, counted
\* by alert_count; its days_ahead indexes the day labels of the last header
\* row and its date is the label there; a response without a usable header
\* row gives no alerts.
C25_DayEntriesWellFormed ==
    pc = "forecast_returned" =>
        /\ \A n \in 1..Len(forecast.alerts) : WellFormedEntry(forecast.alerts[n])
        /\ (UsableHeaders = {} => forecast.alerts = << >>)

\* A result with a two-alert entry for the second day and a one-alert entry.
C25_Witness ==
    /\ pc = "forecast_returned"
    /\ \E n, m \in 1..Len(forecast.alerts) :
          /\ forecast.alerts[n].alert_count = 2
          /\ forecast.alerts[n].days_ahead = 1
          /\ forecast.alerts[m].alert_count = 1

---------------------------------------------------------------------------
(* The Forecast Alerts sensor on the result of the analysis.               *)

\* The snapshot a cycle publishes with the returned forecast dict in it
\* (coordinator.py 125, 129).
SnapshotWith(result) ==
    set_key([EmptyData EXCEPT !.forecast_alerts = Cached(result)], "forecast_alerts")

\* The smallest days_ahead over the day entries of the result.
NearestDay(alerts) ==
    CHOOSE d \in {alerts[n].days_ahead : n \in 1..Len(alerts)} :
        \A n \in 1..Len(alerts) : d <= alerts[n].days_ahead

\* The state the sensor is to show for a nearest alert d days ahead.
NearestState(d, total) ==
    IF d = 0 THEN SensorState("Alert Today", None, total)
    ELSE IF d = 1 THEN SensorState("Alert Tomorrow", None, total)
    ELSE SensorState("Alert in {days} days", d, total)

\* C24: when the forecast result has alerts, the state of the Forecast
\* Alerts sensor names the smallest days_ahead over all day entries of the
\* result, with the result's total_alerts.
C24_SensorShowsNearestAlert ==
    (pc = "forecast_returned" /\ forecast.has_alerts) =>
        native_value(SnapshotWith(forecast))
            = NearestState(NearestDay(forecast.alerts), forecast.total_alerts)

---------------------------------------------------------------------------
(* Severity and the Grid Emergency binary sensor.                          *)

\* The snapshot a cycle publishes with the returned record in it
\* (coordinator.py 132).
SnapshotWithParsed(parsed) ==
    set_key([EmptyData EXCEPT !.parsed_status = parsed], "parsed_status")

\* C26: every record _parse_status returns has a severity in 0..5 and is an
\* emergency exactly when the severity is at least 4; so the Grid Emergency
\* binary sensor is on exactly when the severity of the published snapshot is
\* 4 or 5, and it is off when there is no snapshot.
C26_EmergencyIffSeverityAtLeast4 ==
    /\ ~is_on(EmptyData)
    /\ pc = "return" =>
          /\ parsed_status.severity \in 0..5
          /\ parsed_status.is_emergency <=> parsed_status.severity >= 4
          /\ is_on(SnapshotWithParsed(parsed_status)) <=> parsed_status.severity \in {4, 5}

\* A record of severity 4 has been returned and the sensor is on.
C26_Witness ==
    /\ pc = "return"
    /\ parsed_status.severity = 4
    /\ is_on(SnapshotWithParsed(parsed_status))

---------------------------------------------------------------------------
(* The order of the three patterns of _extract_op4_action.                 *)

\* The number in the leftmost match of pattern k in the lower-cased text;
\* None when the pattern does not match.
PatternNumber(k) ==
    LET s == lower(status_data.status.val)
        m == search(s, k)
    IN  IF m = 0 THEN None ELSE int(group1(s, m, k))

\* The patterns whose match is a number in 1..11.
PatternsInRange == {k \in 1..3 : PatternNumber(k) \in 1..11}

\* C22: the result is the number of the first of the three patterns, in
\* their order, whose match is in 1..11; a pattern whose match is out of
\* range is passed over; with no such pattern the result is none.  So the
\* result is none or an integer in 1..11.
C22_FirstPatternInRange ==
    pc = "extracted" =>
        /\ parsed_status.op4_action \in {None} \cup 1..11
        /\ IF PatternsInRange = {}
           THEN parsed_status.op4_action = None
           ELSE \E k \in PatternsInRange :
                   /\ \A j \in PatternsInRange : k <= j
                   /\ parsed_status.op4_action = PatternNumber(k)

\* The first pattern matched a number out of range, the second did not
\* match, and the result is the number of the third.
C22_Witness ==
    /\ pc = "extracted"
    /\ PatternNumber(1) = 12
    /\ PatternNumber(2) = None
    /\ PatternNumber(3) = 3
    /\ parsed_status.op4_action = 3

---------------------------------------------------------------------------
(* Repeated labels in the forecast CSV.                                    *)

\* Row n is a D row and a later D row has its label.
Superseded(rows, n) ==
    /\ rows[n].line_type = "D"
    /\ \E m \in (n + 1)..Len(rows) :
          rows[m].line_type = "D" /\ rows[m].label = rows[n].label

\* The rows from position n on, of each label only the last row.
RECURSIVE LastRows(_, _)
LastRows(rows, n) ==
    IF n > Len(rows) THEN << >>
    ELSE (IF Superseded(rows, n) THEN << >> ELSE <<rows[n]>>) \o LastRows(rows, n + 1)

\* Some label has several rows, the last of them without value fields.
LastRowWithoutValues ==
    \E n \in 1..Len(csv.rows) :
        /\ csv.rows[n].line_type = "D"
        /\ csv.rows[n].values = << >>
        /\ ~Superseded(csv.rows, n)
        /\ \E m \in 1..(n - 1) : Superseded(csv.rows, m) /\ csv.rows[m].label = csv.rows[n].label

\* C23: when several D rows have the same label, the alerts are derived
\* from the values of the last of them, whatever it holds: the result is that
\* of the file with only the last row of each label.
C23_LastRowOfLabelWins ==
    ForecastReturned => forecast = analysis_result(LastRows(csv.rows, 1))

====
